---- MODULE Spec2Model ----
(***************************************************************************)
(* A model of Hydro.cc (PENNANT, Legion port): the hydro cycle driver      *)
(* doCycle, the predictor and corrector primitives, the time-step          *)
(* selection calcDtCourant / calcDtVolume / calcDtHydro, the energy        *)
(* check and the copy of zone results to the Legion accessors.             *)
(***************************************************************************)
EXTENDS Integers, Sequences, FiniteSets, TLC

(***************************************************************************)
(* double.  A value is <<e, n, d>> and stands for (n / d) * (1e99)^e, with *)
(* d > 0, n / d in lowest terms and zero written <<0, 0, 1>>.  The tag e   *)
(* keeps the two literals 1.e99 and 1.e-99 of the source apart from the    *)
(* ordinary magnitudes without putting 10^99 in an integer; ordinary       *)
(* magnitudes are many orders away from both, so the order is by tag       *)
(* first and a sum of two tags keeps the larger one (the smaller term is   *)
(* below half an ulp).  Every operation rounds n / d to MantBits           *)
(* significant bits, to nearest, ties to even, as IEEE arithmetic does     *)
(* with 53.                                                                *)
(***************************************************************************)
MantBits == 3

Abs(i) == IF i < 0 THEN -i ELSE i

RECURSIVE GCD(_, _)
GCD(a, b) == IF b = 0 THEN a ELSE GCD(b, a % b)

RECURSIVE Pow2(_)
Pow2(k) == IF k = 0 THEN 1 ELSE 2 * Pow2(k - 1)

MantLo == Pow2(MantBits - 1)
MantHi == Pow2(MantBits)

Zero == <<0, 0, 1>>

Norm(e, n, d) ==
    IF n = 0 THEN Zero
    ELSE IF d = 1 THEN <<e, n, 1>>
    ELSE LET g == GCD(Abs(n), d) IN <<e, n \div g, d \div g>>

\* n / d > 0 rounded to MantBits significant bits: <<numerator, denominator>>
RECURSIVE RoundPos(_, _)
RoundPos(n, d) ==
    IF n < d * MantLo
    THEN LET r == RoundPos(2 * n, d) IN <<r[1], 2 * r[2]>>
    ELSE IF n >= d * MantHi
    THEN LET r == RoundPos(n, 2 * d) IN <<2 * r[1], r[2]>>
    ELSE LET q == n \div d
             r == n % d
             up == 2 * r > d \/ (2 * r = d /\ q % 2 = 1)
         IN  <<IF up THEN q + 1 ELSE q, 1>>

Rnd(x) ==
    IF x[2] = 0 THEN Zero
    ELSE IF x[3] = 1 /\ Abs(x[2]) <= MantHi THEN x
    ELSE LET r == RoundPos(Abs(x[2]), x[3])
         IN  Norm(x[1], IF x[2] < 0 THEN -r[1] ELSE r[1], r[2])

Num(n) == Norm(0, n, 1)
Frac(n, d) == Norm(0, n, d)

Sgn(a) == IF a[2] > 0 THEN 1 ELSE IF a[2] < 0 THEN -1 ELSE 0
FNeg(a) == <<a[1], -a[2], a[3]>>
FAbs(a) == <<a[1], Abs(a[2]), a[3]>>

LessPos(a, b) == a[1] < b[1] \/ (a[1] = b[1] /\ a[2] * b[3] < b[2] * a[3])

FLess(a, b) ==
    IF Sgn(a) # Sgn(b) THEN Sgn(a) < Sgn(b)
    ELSE IF Sgn(a) = 0 THEN FALSE
    ELSE IF Sgn(a) = 1 THEN LessPos(a, b)
    ELSE LessPos(FNeg(b), FNeg(a))

FLeq(a, b) == ~FLess(b, a)

\* std::max(a, b) is (a < b) ? b : a
FMax(a, b) == IF FLess(a, b) THEN b ELSE a

\* the exact sum, before rounding
ExactAdd(a, b) ==
    IF a[2] = 0 THEN b
    ELSE IF b[2] = 0 THEN a
    ELSE IF a[1] = b[1] THEN Norm(a[1], a[2] * b[3] + b[2] * a[3], a[3] * b[3])
    ELSE IF a[1] > b[1] THEN a ELSE b

FAdd(a, b) == Rnd(ExactAdd(a, b))
FSub(a, b) == FAdd(a, FNeg(b))
FMul(a, b) == Rnd(Norm(a[1] + b[1], a[2] * b[2], a[3] * b[3]))

\* a / b for b # 0 (every divisor of the model is nonzero: the source
\* guards its divisors with fuzz, and volumes and dt are positive)
FDiv(a, b) ==
    Rnd(Norm(a[1] - b[1],
             (IF b[2] < 0 THEN -1 ELSE 1) * a[2] * b[3],
             a[3] * Abs(b[2])))

\* const double fuzz = 1.e-99 and the literal 1.e99
fuzz == <<-1, 1, 1>>
Huge == <<1, 1, 1>>

\* sqrt(n / d), for n / d > 0, rounded to MantBits significant bits:
\* <<numerator, denominator>>
RECURSIVE SqrtPos(_, _)
SqrtPos(n, d) ==
    IF n < d * MantLo * MantLo
    THEN LET r == SqrtPos(4 * n, d) IN <<r[1], 2 * r[2]>>
    ELSE IF n >= d * MantHi * MantHi
    THEN LET r == SqrtPos(n, 4 * d) IN <<2 * r[1], r[2]>>
    ELSE LET m == CHOOSE k \in MantLo .. MantHi - 1 :
                      k * k * d <= n /\ n < (k + 1) * (k + 1) * d
             mid == (4 * m * m + 4 * m + 1) * d
             up == 4 * n > mid \/ (4 * n = mid /\ m % 2 = 1)
         IN  <<IF up THEN m + 1 ELSE m, 1>>

\* sqrt of an ordinary magnitude (tag 0)
FSqrt(a) ==
    IF a[2] = 0 THEN Zero
    ELSE LET r == SqrtPos(a[2], a[3]) IN Norm(0, r[1], r[2])

\* M_PI: pi to the precision of a double
M_PI == Rnd(Frac(355, 113))

(***************************************************************************)
(* double2                                                                 *)
(***************************************************************************)
VZero == <<Zero, Zero>>
Vec(x, y) == <<Num(x), Num(y)>>
VAdd(a, b) == <<FAdd(a[1], b[1]), FAdd(a[2], b[2])>>
VSub(a, b) == <<FSub(a[1], b[1]), FSub(a[2], b[2])>>
VNeg(a) == <<FNeg(a[1]), FNeg(a[2])>>
VScale(a, k) == <<FMul(a[1], k), FMul(a[2], k)>>
VDiv(a, k) == <<FDiv(a[1], k), FDiv(a[2], k)>>
dot(a, b) == FAdd(FMul(a[1], b[1]), FMul(a[2], b[2]))
length2(a) == FAdd(FMul(a[1], a[1]), FMul(a[2], a[2]))
length(a) == FSqrt(length2(a))


Arr(seq) == [i \in 0 .. Len(seq) - 1 |-> seq[i + 1]]
Range(seq) == {seq[i] : i \in 1 .. Len(seq)}
InChunk(i, first, lastx) == first <= i /\ i < lastx

(***************************************************************************)
(* The mesh (LocalMesh): a strip of three zones, a triangle, a quad and a  *)
(* triangle, over six points.  Zone z owns the sides                       *)
(* zone_pts_ptr[z] .. zone_pts_ptr[z+1] - 1; a side chunk ends where a     *)
(* zone ends.                                                              *)
(***************************************************************************)
zone_pts_ptr == Arr(<<0, 3, 7, 10>>)
map_side2pt1 == Arr(<<0, 1, 2, 1, 3, 4, 2, 3, 5, 4>>)
pt_chunks_CRS == Arr(<<0, 3, 6>>)
side_chunks_CRS == Arr(<<0, 7, 10>>)
num_zones == 3
num_sides == 10
num_pts == 6
Zones == 0 .. num_zones - 1
Sides == 0 .. num_sides - 1
Points == 0 .. num_pts - 1
num_pt_chunks == 2
num_side_chunks == 2
PtChunks == 0 .. num_pt_chunks - 1
SideChunks == 0 .. num_side_chunks - 1

map_side2zone ==
    [s \in Sides |-> CHOOSE z \in Zones : zone_pts_ptr[z] <= s /\ s < zone_pts_ptr[z + 1]]

\* the previous side around the zone of s, cyclically
mapSideToSidePrev(s) ==
    LET z == map_side2zone[s]
        sbase == zone_pts_ptr[z]
        slast == zone_pts_ptr[z + 1]
    IN  (IF s = sbase THEN slast ELSE s) - 1

\* the second point of side s: the first point of the next side of its zone
mapSideToPt2(s, side2pt1, side2zone, zptr) ==
    LET z == side2zone[s]
        sbase == zptr[z]
        slast == zptr[z + 1]
    IN  side2pt1[IF s + 1 = slast THEN sbase ELSE s + 1]

side_zone_chunks_first(sch) == map_side2zone[side_chunks_CRS[sch]]
side_zone_chunks_last(sch) == map_side2zone[side_chunks_CRS[sch + 1] - 1] + 1

\* local point p in the global numbering of the accessors (one subdomain)
pointLocalToGlobalID(p) == p

\* the mass fraction of each side within its zone
side_mass_frac ==
    Arr(<<Frac(1, 4), Frac(1, 4), Frac(1, 2),
          Frac(1, 4), Frac(1, 4), Frac(1, 4), Frac(1, 4),
          Frac(1, 2), Frac(1, 4), Frac(1, 4)>>)

\* stability safety factors of the run (params.directs.cfl, cflv)
cfl == Frac(1, 2)
cflv == Frac(1, 2)

(***************************************************************************)
(* The predictor and corrector primitives.  An array argument is a         *)
(* function over Points, Sides or Zones; a primitive returns the arrays    *)
(* it writes, the elements outside its range as they were.                 *)
(***************************************************************************)
One == Num(1)
Two == Num(2)
Half == Frac(1, 2)

\* pt_x_pred after advPosHalf
advPosHalf(dt_, pfirst, plast, pt_x0, pt_vel0, pt_x_pred) ==
    LET dth == FMul(Half, dt_)
    IN  [p \in Points |->
            IF InChunk(p, pfirst, plast)
            THEN VAdd(pt_x0[p], VScale(pt_vel0[p], dth))
            ELSE pt_x_pred[p]]

\* advPosFull that forgets the starting position
advPosFullNoBase(dt_, pt_vel0, pt_accel, pt_x0, pt_vel, pt_x, pfirst, plast) ==
    LET vel == [p \in Points |->
                   IF InChunk(p, pfirst, plast)
                   THEN VAdd(pt_vel0[p], VScale(pt_accel[p], dt_))
                   ELSE pt_vel[p]]
    IN  [pt_vel |-> vel,
         pt_x |-> [p \in Points |->
                      IF InChunk(p, pfirst, plast)
                      THEN VScale(VScale(VAdd(vel[p], pt_vel0[p]), Half), dt_)
                      ELSE pt_x[p]]]

\* pt_vel and pt_x after advPosFull
advPosFull(dt_, pt_vel0, pt_accel, pt_x0, pt_vel, pt_x, pfirst, plast) ==
    LET vel == [p \in Points |->
                   IF InChunk(p, pfirst, plast)
                   THEN VAdd(pt_vel0[p], VScale(pt_accel[p], dt_))
                   ELSE pt_vel[p]]
    IN  [pt_vel |-> vel,
         pt_x |-> [p \in Points |->
                      IF InChunk(p, pfirst, plast)
                      THEN VAdd(pt_x0[p], VScale(VScale(VAdd(vel[p], pt_vel0[p]), Half), dt_))
                      ELSE pt_x[p]]]

\* crnr_weighted_mass after calcCrnrMass
calcCrnrMass(sfirst, slast, zone_rho_pred, zarea, smf, crnr_weighted_mass) ==
    [s \in Sides |->
        IF InChunk(s, sfirst, slast)
        THEN LET s3 == mapSideToSidePrev(s)
                 z == map_side2zone[s]
             IN  FMul(FMul(FMul(zone_rho_pred[z], zarea[z]), Half), FAdd(smf[s], smf[s3]))
        ELSE crnr_weighted_mass[s]]

\* the sum of the three force fields at side s
SideForceSum(sfp, sfq, sft, s) == VAdd(VAdd(sfp[s], sfq[s]), sft[s])

\* sumCrnrForce taking the side before s in the numbering as its predecessor
sumCrnrForceIndexPrev(sfirst, slast, sfp, sfq, sft, crnr_force_tot) ==
    [s \in Sides |->
        IF InChunk(s, sfirst, slast)
        THEN LET s3 == (s + num_sides - 1) % num_sides
             IN  VSub(SideForceSum(sfp, sfq, sft, s), SideForceSum(sfp, sfq, sft, s3))
        ELSE crnr_force_tot[s]]

\* sumCrnrForce adding the predecessor's forces instead of subtracting them
sumCrnrForcePlus(sfirst, slast, sfp, sfq, sft, crnr_force_tot) ==
    [s \in Sides |->
        IF InChunk(s, sfirst, slast)
        THEN LET s3 == mapSideToSidePrev(s)
             IN  VAdd(SideForceSum(sfp, sfq, sft, s), SideForceSum(sfp, sfq, sft, s3))
        ELSE crnr_force_tot[s]]

\* crnr_force_tot after sumCrnrForce
sumCrnrForce(sfirst, slast, sfp, sfq, sft, crnr_force_tot) ==
    [s \in Sides |->
        IF InChunk(s, sfirst, slast)
        THEN LET s3 == mapSideToSidePrev(s)
             IN  VSub(SideForceSum(sfp, sfq, sft, s), SideForceSum(sfp, sfq, sft, s3))
        ELSE crnr_force_tot[s]]

\* pt_accel after calcAccel; pf and pmass are read through the accessors
calcAccel(pf, pmass, pt_accel, pfirst, plast) ==
    [p \in Points |->
        IF InChunk(p, pfirst, plast)
        THEN LET pt_ptr == pointLocalToGlobalID(p)
             IN  VDiv(pf[pt_ptr], FMax(pmass[pt_ptr], fuzz))
        ELSE pt_accel[p]]

\* zr after calcRho
calcRho(zvol, zm, zr, zfirst, zlast) ==
    [z \in Zones |-> IF InChunk(z, zfirst, zlast) THEN FDiv(zm[z], zvol[z]) ELSE zr[z]]

\* dwork of one side
SideWork(dth, side, side2pt1, side2zone, zptr, sfp, sfq, pt_vel, pt_vel0, pt_x_pred) ==
    LET p1 == side2pt1[side]
        p2 == mapSideToPt2(side, side2pt1, side2zone, zptr)
        sftot == VAdd(sfp[side], sfq[side])
        sd1 == dot(sftot, VAdd(pt_vel0[p1], pt_vel[p1]))
        sd2 == dot(VNeg(sftot), VAdd(pt_vel0[p2], pt_vel[p2]))
    IN  FMul(FNeg(dth), FAdd(FMul(sd1, pt_x_pred[p1][1]), FMul(sd2, pt_x_pred[p2][1])))

\* arr with arr[side2zone[side]] += dw[side] for the sides in order
RECURSIVE Accumulate(_, _, _, _, _)
Accumulate(side, side_last, arr, dw, side2zone) ==
    IF side >= side_last THEN arr
    ELSE Accumulate(side + 1, side_last,
                    [arr EXCEPT ![side2zone[side]] = FAdd(@, dw[side])], dw, side2zone)

\* zone_energy_tot and zone_work after calcWork
calcWork(dt_, side2pt1, side2zone, zptr, sfp, sfq, pt_vel, pt_vel0, pt_x_pred, zone_energy_tot, zone_work, side_first, side_last) ==
    LET dth == FMul(Half, dt_)
        dw == [s \in Sides |->
                  SideWork(dth, s, side2pt1, side2zone, zptr, sfp, sfq, pt_vel, pt_vel0, pt_x_pred)]
    IN  [zone_energy_tot |-> Accumulate(side_first, side_last, zone_energy_tot, dw, side2zone),
         zone_work |-> Accumulate(side_first, side_last, zone_work, dw, side2zone)]

\* zone_work_rate after calcWorkRate
calcWorkRate(dt_, zone_vol, zone_vol0, zone_work, zone_pressure, zone_work_rate, zfirst, zlast) ==
    LET dtinv == FDiv(One, dt_)
    IN  [z \in Zones |->
            IF InChunk(z, zfirst, zlast)
            THEN LET dvol == FSub(zone_vol[z], zone_vol0[z])
                 IN  FMul(FAdd(zone_work[z], FMul(zone_pressure[z], dvol)), dtinv)
            ELSE zone_work_rate[z]]

\* zone_energy_density after calcEnergy
calcEnergy(zone_energy_tot, zone_mass, zone_energy_density, zfirst, zlast) ==
    [z \in Zones |->
        IF InChunk(z, zfirst, zlast)
        THEN FDiv(zone_energy_tot[z], FAdd(zone_mass[z], fuzz))
        ELSE zone_energy_density[z]]

\* acc + f[first] + ... + f[lastx - 1], added in that order
RECURSIVE SumLoop(_, _, _, _)
SumLoop(i, lastx, acc, f) ==
    IF i >= lastx THEN acc ELSE SumLoop(i + 1, lastx, FAdd(acc, f[i]), f)

\* <<ei, ek>> after sumEnergy
sumEnergy(zetot, zarea, zvol, zm, smf, px, pu, ei, ek, zfirst, zlast, sfirst, slast) ==
    LET sumi == SumLoop(zfirst, zlast, Zero, zetot)
        cke == [s \in Sides |->
                   LET s3 == mapSideToSidePrev(s)
                       p1 == map_side2pt1[s]
                       z == map_side2zone[s]
                       cvol == FMul(FMul(FMul(zarea[z], px[p1][1]), Half), FAdd(smf[s], smf[s3]))
                   IN  FMul(FMul(FDiv(FMul(zm[z], cvol), zvol[z]), Half), length2(pu[p1]))]
        sumk == SumLoop(sfirst, slast, Zero, cke)
    IN  <<FAdd(ei, FMul(FMul(sumi, Two), M_PI)), FAdd(ek, FMul(FMul(sumk, Two), M_PI))>>

\* pt_vel after initRadialVel
initRadialVel(vel, pfirst, plast, pt_x, pt_vel) ==
    [p \in Points |->
        IF InChunk(p, pfirst, plast)
        THEN LET pmag == length(pt_x[p])
             IN  IF pmag # Zero    \* pmag > eps = 1.e-12, for coordinates of order one
                 THEN VDiv(VScale(pt_x[p], vel), pmag)
                 ELSE VZero
        ELSE pt_vel[p]]

VARIABLES
    mesh,               \* LocalMesh: the geometry fields this core reads and writes
    zones,              \* Hydro::zones, the zone fields
    sides_and_corners,  \* Hydro::sides_and_corners, the side and corner fields
    points,             \* Hydro::points, the point fields
    built,              \* the fields as the constructor left them
    ext,                \* what the external collaborators return (geometry, EOS, force models)
    dt,                 \* the time step of the cycle
    zone_chunks_CRS,    \* mesh->zone_chunks_CRS
    \* --- TimeStep recommend and its callers
    recommend,          \* the shared TimeStep: [dt, message]
    rec0,               \* recommend as the caller initialised it
    pre,                \* recommend before the latest calcDtHydro call
    last,               \* the latest call: its range and its locals
    recommend2,         \* the TimeStep of a second run over the same inputs
    done,               \* chunks the first run has evaluated, in order
    done2,              \* chunks the second run has evaluated, in order
    pc,                 \* per chunk: where its concurrent calcDtHydro stands
    loc,                \* per chunk: its locals dtchunk, msgdtchunk
    \* --- doCycle
    cyc,                \* doCycle: [pc, i, ncycles]
    future,             \* the corrector's Future: "none", "running", "resolved"
    cor,                \* the corrector task: [pc, i]
    evt,                \* what has happened in the current cycle, in order
    snap,               \* the fields as they were when the cycle began
    par,                \* the side/zone phase with its chunks run in any interleaving
    \* --- copyZonesToLegion and writeEnergyCheck
    copy,               \* the latest copyZonesToLegion call and how it ended
    en                  \* writeEnergyCheck in every subdomain, and the global-sum service

fieldVars == <<mesh, zones, sides_and_corners, points>>
dtInputs == <<dt, zone_chunks_CRS, ext, built>>
dtSeqVars == <<pre, last>>
dtOrderVars == <<recommend2, done, done2>>
dtRaceVars == <<pc, loc>>
cycleVars == <<cyc, future, cor, evt, snap>>
otherVars == <<par, copy, en>>
vars == <<fieldVars, dtInputs, recommend, rec0, dtSeqVars, dtOrderVars, dtRaceVars,
          cycleVars, otherVars>>

\* the four field containers as one value
Fields ==
    [mesh |-> mesh, zones |-> zones, sides_and_corners |-> sides_and_corners,
     points |-> points]

SetFields(F) ==
    /\ mesh' = F.mesh
    /\ zones' = F.zones
    /\ sides_and_corners' = F.sides_and_corners
    /\ points' = F.points

(***************************************************************************)
(* Construction                                                            *)
(***************************************************************************)
\* std::copy(&src[first], &src[lastx], &dst[first])
CopyRange(src, dst, first, lastx) ==
    [i \in DOMAIN dst |-> IF InChunk(i, first, lastx) THEN src[i] ELSE dst[i]]

\* the geometry the mesh holds when Hydro is constructed
pt_x_init == Arr(<<Vec(0, 0), Vec(1, 0), Vec(1, 1), Vec(2, 0), Vec(2, 1), Vec(3, 0)>>)
zone_x_init ==
    Arr(<<<<Rnd(Frac(2, 3)), Rnd(Frac(1, 3))>>, <<Frac(3, 2), Frac(1, 2)>>,
          <<Rnd(Frac(7, 3)), Rnd(Frac(1, 3))>>>>)
zone_vol_init == Arr(<<Frac(1, 2), Num(1), Frac(1, 2)>>)

\* subregion_xmin == numeric_limits<double>::max(): no subregion is set
NoSubregion == [set |-> FALSE, xmin |-> Zero, xmax |-> Zero, ymin |-> Zero, ymax |-> Zero]
MidSubregion == [set |-> TRUE, xmin |-> Num(1), xmax |-> Num(2), ymin |-> Zero, ymax |-> Num(1)]

\* a > b - eps and a < b + eps with eps = 1.e-12: the coordinates of the
\* model are coarser than eps by many orders, so the tests are a >= b and a <= b
AboveEps(a, b) == FLeq(b, a)
BelowEps(a, b) == FLeq(a, b)

InSubregion(sub, zx) ==
    /\ sub.set
    /\ AboveEps(zx[1], sub.xmin)
    /\ BelowEps(zx[1], sub.xmax)
    /\ AboveEps(zx[2], sub.ymin)
    /\ BelowEps(zx[2], sub.ymax)

\* what allocation leaves in an array nobody has written yet
ZoneArr(v) == [z \in Zones |-> v]
SideArr(v) == [s \in Sides |-> v]
PointArr(v) == [p \in Points |-> v]

\* Hydro::init: the fields after construction.  prm are the input
\* parameters; junk is what the allocated zone_work happens to hold.
init(prm, junk) ==
    LET zone_rho == [z \in Zones |->
                        IF InSubregion(prm.subregion, zone_x_init[z])
                        THEN prm.rho_init_sub ELSE prm.rho_init]
        zone_energy_density ==
            [z \in Zones |->
                IF InSubregion(prm.subregion, zone_x_init[z])
                THEN prm.energy_init_sub ELSE prm.energy_init]
        zone_mass == [z \in Zones |-> FMul(zone_rho[z], zone_vol_init[z])]
        zone_energy_tot == [z \in Zones |-> FMul(zone_energy_density[z], zone_mass[z])]
        pt_vel == IF prm.vel_init_radial # Zero
                  THEN initRadialVel(prm.vel_init_radial, 0, num_pts, pt_x_init, PointArr(VZero))
                  ELSE PointArr(VZero)
    IN  [mesh |-> [pt_x |-> pt_x_init, pt_x0 |-> PointArr(VZero), pt_x_pred |-> PointArr(VZero),
                   zone_vol |-> zone_vol_init, zone_vol0 |-> ZoneArr(One),
                   zone_vol_pred |-> ZoneArr(One), zone_area |-> zone_vol_init,
                   zone_area_pred |-> ZoneArr(One), zone_dl |-> ZoneArr(One),
                   pt_mass |-> PointArr(Zero), pt_force |-> PointArr(VZero)],
         zones |-> [zone_rho |-> zone_rho, zone_rho_pred |-> ZoneArr(Zero),
                    zone_energy_density |-> zone_energy_density,
                    zone_pressure_ |-> ZoneArr(Zero), zone_mass |-> zone_mass,
                    zone_energy_tot |-> zone_energy_tot, zone_work |-> ZoneArr(junk),
                    zone_work_rate |-> ZoneArr(Zero), zone_sound_speed |-> ZoneArr(Zero),
                    zone_dvel |-> ZoneArr(Zero)],
         sides_and_corners |-> [crnr_weighted_mass |-> SideArr(Zero),
                                side_force_pres |-> SideArr(VZero),
                                side_force_visc |-> SideArr(VZero),
                                side_force_tts |-> SideArr(VZero),
                                crnr_force_tot |-> SideArr(VZero)],
         points |-> [pt_vel |-> pt_vel, pt_vel0 |-> PointArr(VZero),
                     pt_accel |-> PointArr(VZero)]]

\* the input parameters of the runs checked
ParamSets ==
    {[rho_init |-> One, energy_init |-> One, rho_init_sub |-> Two, energy_init_sub |-> Num(4),
      subregion |-> sub, vel_init_radial |-> v] :
        sub \in {NoSubregion, MidSubregion}, v \in {Zero, One}}

\* what an allocated, unwritten zone_work may hold
JunkWork == {Zero, One}

(***************************************************************************)
(* The external collaborators: what the geometry provider, the equation of *)
(* state and the force models hand back, per zone and per side.            *)
(***************************************************************************)
\* nothing moves and no model exerts a force
Rest ==
    [zone_vol_pred |-> zone_vol_init, zone_area_pred |-> zone_vol_init,
     zone_vol |-> zone_vol_init, zone_area |-> zone_vol_init,
     zone_dl |-> ZoneArr(One), zone_pressure |-> ZoneArr(One),
     zone_sound_speed |-> ZoneArr(One), zone_dvel |-> ZoneArr(Zero),
     side_force_pres |-> SideArr(VZero), side_force_visc |-> SideArr(VZero),
     side_force_tts |-> SideArr(VZero)]

\* the middle zone is compressed; pressure, viscosity and subzonal forces act
Push ==
    [zone_vol_pred |-> Arr(<<Frac(1, 2), Frac(3, 4), Frac(1, 2)>>),
     zone_area_pred |-> Arr(<<Frac(1, 2), Frac(3, 4), Frac(1, 2)>>),
     zone_vol |-> Arr(<<Frac(1, 2), Frac(1, 2), Frac(1, 2)>>),
     zone_area |-> Arr(<<Frac(1, 2), Frac(1, 2), Frac(1, 2)>>),
     zone_dl |-> Arr(<<One, Frac(1, 2), One>>),
     zone_pressure |-> Arr(<<One, Two, One>>),
     zone_sound_speed |-> Arr(<<One, Two, One>>),
     zone_dvel |-> Arr(<<Zero, One, Zero>>),
     side_force_pres |-> [s \in Sides |-> Vec(1 + (s % 3), s % 2)],
     side_force_visc |-> [s \in Sides |-> Vec(s % 2, 1)],
     side_force_tts |-> [s \in Sides |-> Vec(0, (s + 1) % 3)]]

\* the outer zones expand; only the pressure force acts
Pull ==
    [zone_vol_pred |-> Arr(<<Frac(3, 4), One, One>>),
     zone_area_pred |-> Arr(<<Frac(3, 4), One, One>>),
     zone_vol |-> Arr(<<One, One, Two>>),
     zone_area |-> Arr(<<One, One, Two>>),
     zone_dl |-> Arr(<<Two, One, Two>>),
     zone_pressure |-> Arr(<<Frac(1, 2), One, Frac(1, 4)>>),
     zone_sound_speed |-> Arr(<<Frac(1, 2), One, One>>),
     zone_dvel |-> Arr(<<Two, Zero, One>>),
     side_force_pres |-> [s \in Sides |-> Vec((s % 2) - 1, 2 - (s % 3))],
     side_force_visc |-> SideArr(VZero),
     side_force_tts |-> SideArr(VZero)]

Externals == {Rest, Push, Pull}

(***************************************************************************)
(* The steps of doCycle, on the field containers F                         *)
(***************************************************************************)
\* one pass of the point-chunk loop
PredictPoints(F, dt_, pch) ==
    LET pt_first == pt_chunks_CRS[pch]
        pt_last == pt_chunks_CRS[pch + 1]
        x0 == CopyRange(F.mesh.pt_x, F.mesh.pt_x0, pt_first, pt_last)
        v0 == CopyRange(F.points.pt_vel, F.points.pt_vel0, pt_first, pt_last)
    IN  [F EXCEPT !.mesh.pt_x0 = x0,
                  !.points.pt_vel0 = v0,
                  !.mesh.pt_x_pred = advPosHalf(dt_, pt_first, pt_last, x0, v0, @)]

\* the side-chunk loop, part 1: zone_vol0 saved, the predicted geometry
\* recomputed by the mesh
SideGeom(F, x, sch) ==
    LET zfirst == side_zone_chunks_first(sch)
        zlast == side_zone_chunks_last(sch)
    IN  [F EXCEPT !.mesh.zone_vol0 = CopyRange(F.mesh.zone_vol, @, zfirst, zlast),
                  !.mesh.zone_vol_pred = CopyRange(x.zone_vol_pred, @, zfirst, zlast),
                  !.mesh.zone_area_pred = CopyRange(x.zone_area_pred, @, zfirst, zlast),
                  !.mesh.zone_dl = CopyRange(x.zone_dl, @, zfirst, zlast)]

\* part 2 with the mass and density arguments of calcRho exchanged
SideMassSwapped(F, sch) ==
    LET sfirst == side_chunks_CRS[sch]
        slast == side_chunks_CRS[sch + 1]
        zfirst == side_zone_chunks_first(sch)
        zlast == side_zone_chunks_last(sch)
        zm == calcRho(F.mesh.zone_vol_pred, F.zones.zone_rho_pred, F.zones.zone_mass,
                      zfirst, zlast)
    IN  [F EXCEPT !.zones.zone_mass = zm,
                  !.sides_and_corners.crnr_weighted_mass =
                      calcCrnrMass(sfirst, slast, F.zones.zone_rho_pred, F.mesh.zone_area_pred,
                                   side_mass_frac, @)]

\* part 2: the predicted density and the corner masses
SideMass(F, sch) ==
    LET sfirst == side_chunks_CRS[sch]
        slast == side_chunks_CRS[sch + 1]
        zfirst == side_zone_chunks_first(sch)
        zlast == side_zone_chunks_last(sch)
        zrp == calcRho(F.mesh.zone_vol_pred, F.zones.zone_mass, F.zones.zone_rho_pred,
                       zfirst, zlast)
    IN  [F EXCEPT !.zones.zone_rho_pred = zrp,
                  !.sides_and_corners.crnr_weighted_mass =
                      calcCrnrMass(sfirst, slast, zrp, F.mesh.zone_area_pred,
                                   side_mass_frac, @)]

\* part 3: the state at the half step and the three side forces
SideForce(F, x, sch) ==
    LET sfirst == side_chunks_CRS[sch]
        slast == side_chunks_CRS[sch + 1]
        zfirst == side_zone_chunks_first(sch)
        zlast == side_zone_chunks_last(sch)
    IN  [F EXCEPT !.zones.zone_pressure_ = CopyRange(x.zone_pressure, @, zfirst, zlast),
                  !.zones.zone_sound_speed = CopyRange(x.zone_sound_speed, @, zfirst, zlast),
                  !.zones.zone_dvel = CopyRange(x.zone_dvel, @, zfirst, zlast),
                  !.sides_and_corners.side_force_pres =
                      CopyRange(x.side_force_pres, @, sfirst, slast),
                  !.sides_and_corners.side_force_tts =
                      CopyRange(x.side_force_tts, @, sfirst, slast),
                  !.sides_and_corners.side_force_visc =
                      CopyRange(x.side_force_visc, @, sfirst, slast)]

\* part 4: the corner forces
SideSum(F, sch) ==
    [F EXCEPT !.sides_and_corners.crnr_force_tot =
                  sumCrnrForce(side_chunks_CRS[sch], side_chunks_CRS[sch + 1],
                               F.sides_and_corners.side_force_pres,
                               F.sides_and_corners.side_force_visc,
                               F.sides_and_corners.side_force_tts, @)]

\* one pass of the side-chunk loop
PredictSides(F, x, sch) == SideSum(SideForce(SideMass(SideGeom(F, x, sch), sch), x, sch), sch)

\* mesh->sumToPoints: corner masses and corner forces added onto the point
\* each corner belongs to, in side order
RECURSIVE ScatterMass(_, _, _)
ScatterMass(s, cmass, pmass) ==
    IF s >= num_sides THEN pmass
    ELSE ScatterMass(s + 1, cmass, [pmass EXCEPT ![map_side2pt1[s]] = FAdd(@, cmass[s])])

RECURSIVE ScatterForce(_, _, _)
ScatterForce(s, cftot, pf) ==
    IF s >= num_sides THEN pf
    ELSE ScatterForce(s + 1, cftot, [pf EXCEPT ![map_side2pt1[s]] = VAdd(@, cftot[s])])

sumToPoints(F, crnr_weighted_mass, crnr_force_tot) ==
    [F EXCEPT !.mesh.pt_mass = ScatterMass(0, crnr_weighted_mass, PointArr(Zero)),
              !.mesh.pt_force = ScatterForce(0, crnr_force_tot, PointArr(VZero))]

(***************************************************************************)
(* The corrector task: the full-step primitives in the order the           *)
(* corrector phase applies them                                            *)
(***************************************************************************)
CorrectPoints(F, dt_, pch) ==
    LET pfirst == pt_chunks_CRS[pch]
        plast == pt_chunks_CRS[pch + 1]
        accel == calcAccel(F.mesh.pt_force, F.mesh.pt_mass, F.points.pt_accel, pfirst, plast)
        adv == advPosFull(dt_, F.points.pt_vel0, accel, F.mesh.pt_x0, F.points.pt_vel,
                          F.mesh.pt_x, pfirst, plast)
    IN  [F EXCEPT !.points.pt_accel = accel,
                  !.points.pt_vel = adv.pt_vel,
                  !.mesh.pt_x = adv.pt_x]

CorrectZones(F, x, dt_, sch) ==
    LET sfirst == side_chunks_CRS[sch]
        slast == side_chunks_CRS[sch + 1]
        zfirst == side_zone_chunks_first(sch)
        zlast == side_zone_chunks_last(sch)
        zvol == CopyRange(x.zone_vol, F.mesh.zone_vol, zfirst, zlast)
        zarea == CopyRange(x.zone_area, F.mesh.zone_area, zfirst, zlast)
        w == calcWork(dt_, map_side2pt1, map_side2zone, zone_pts_ptr,
                      F.sides_and_corners.side_force_pres, F.sides_and_corners.side_force_visc,
                      F.points.pt_vel, F.points.pt_vel0, F.mesh.pt_x_pred,
                      F.zones.zone_energy_tot, F.zones.zone_work, sfirst, slast)
    IN  [F EXCEPT !.mesh.zone_vol = zvol,
                  !.mesh.zone_area = zarea,
                  !.zones.zone_energy_tot = w.zone_energy_tot,
                  !.zones.zone_work = w.zone_work,
                  !.zones.zone_work_rate =
                      calcWorkRate(dt_, zvol, F.mesh.zone_vol0, w.zone_work,
                                   F.zones.zone_pressure_, @, zfirst, zlast),
                  !.zones.zone_energy_density =
                      calcEnergy(w.zone_energy_tot, F.zones.zone_mass, @, zfirst, zlast),
                  !.zones.zone_rho = calcRho(zvol, F.zones.zone_mass, @, zfirst, zlast)]

(***************************************************************************)
(* Time-step selection                                                     *)
(***************************************************************************)
\* what snprintf formats into the 80-character message: the limit's name
\* and the zone index
Message(limit, z) == [limit |-> limit, z |-> z]

\* char msgdtchunk[80] is not initialised.  Uninit marks a buffer nothing has
\* written; what a copy of it holds is any of JunkMessages (Copied).
Uninit == Message("uninit", -1)
JunkMessages == {Message("junk", 0), Message("junk", 1)}
Copied(msg) == IF msg = Uninit THEN JunkMessages ELSE {msg}

RECURSIVE CourantLoop(_, _, _, _, _, _, _, _)
CourantLoop(z, zlast, dtnew, zmin, zdl, zdvel, zss, cfl_) ==
    IF z >= zlast THEN <<dtnew, zmin>>
    ELSE LET cdu == FMax(zdvel[z], FMax(zss[z], fuzz))
             zdthyd == FDiv(FMul(zdl[z], cfl_), cdu)
         IN  CourantLoop(z + 1, zlast,
                         IF FLess(zdthyd, dtnew) THEN zdthyd ELSE dtnew,
                         IF FLess(zdthyd, dtnew) THEN z ELSE zmin,
                         zdl, zdvel, zss, cfl_)

\* returns the new <<dtrec, msgdtrec>>
calcDtCourant(dtrec, msgdtrec, zfirst, zlast, zdl, zdvel, zss, cfl_) ==
    LET r == CourantLoop(zfirst, zlast, Huge, -1, zdl, zdvel, zss, cfl_)
    IN  IF FLess(r[1], dtrec)
        THEN <<r[1], Message("Courant", r[2])>>
        ELSE <<dtrec, msgdtrec>>

RECURSIVE VolumeLoop(_, _, _, _, _, _)
VolumeLoop(z, zlast, dvovmax, zmax, zvol, zvol0) ==
    IF z >= zlast THEN <<dvovmax, zmax>>
    ELSE LET zdvov == FAbs(FDiv(FSub(zvol[z], zvol0[z]), zvol0[z]))
         IN  VolumeLoop(z + 1, zlast,
                        IF FLess(dvovmax, zdvov) THEN zdvov ELSE dvovmax,
                        IF FLess(dvovmax, zdvov) THEN z ELSE zmax,
                        zvol, zvol0)

\* calcDtVolume with zmax starting at the chunk's first zone instead of -1
calcDtVolumeFirstZone(dtlast_, dtrec, msgdtrec, zfirst, zlast, zvol, zvol0, cflv_) ==
    LET r == VolumeLoop(zfirst, zlast, fuzz, zfirst, zvol, zvol0)
        dtnew == FDiv(FMul(dtlast_, cflv_), r[1])
    IN  IF FLess(dtnew, dtrec)
        THEN <<dtnew, Message("dV/V", r[2])>>
        ELSE <<dtrec, msgdtrec>>

\* returns the new <<dtrec, msgdtrec>>
calcDtVolume(dtlast_, dtrec, msgdtrec, zfirst, zlast, zvol, zvol0, cflv_) ==
    LET r == VolumeLoop(zfirst, zlast, fuzz, -1, zvol, zvol0)
        dtnew == FDiv(FMul(dtlast_, cflv_), r[1])
    IN  IF FLess(dtnew, dtrec)
        THEN <<dtnew, Message("dV/V", r[2])>>
        ELSE <<dtrec, msgdtrec>>

\* the locals of calcDtHydro before the test: <<dtchunk, msgdtchunk>>
ChunkDt(dtlast_, zfirst, zlast, zdl, zdvel, zss, cfl_, zvol, zvol0, cflv_) ==
    LET c == calcDtCourant(Huge, Uninit, zfirst, zlast, zdl, zdvel, zss, cfl_)
    IN  calcDtVolume(dtlast_, c[1], c[2], zfirst, zlast, zvol, zvol0, cflv_)

\* Commit with the test made non-strict: an equal proposal overwrites
CommitNonStrict(dtchunk, msgdtchunk, rec) ==
    IF FLeq(dtchunk, rec.dt)
    THEN [dt |-> dtchunk, message |-> msgdtchunk]
    ELSE rec

\* Commit with the test left out: the latest proposal always overwrites
CommitAlways(dtchunk, msgdtchunk, rec) ==
    [dt |-> dtchunk, message |-> msgdtchunk]

\* the test and the commit of calcDtHydro, run without interruption
Commit(dtchunk, msgdtchunk, rec) ==
    IF FLess(dtchunk, rec.dt)
    THEN IF FLess(dtchunk, rec.dt)
         THEN [dt |-> dtchunk, message |-> msgdtchunk]
         ELSE rec
    ELSE rec

\* returns recommend after the call, with the call's locals
calcDtHydro(dtlast_, zfirst, zlast, zdl, zdvel, zss, cfl_, zvol, zvol0, cflv_, rec) ==
    LET l == ChunkDt(dtlast_, zfirst, zlast, zdl, zdvel, zss, cfl_, zvol, zvol0, cflv_)
    IN  [recommend |-> Commit(l[1], l[2], rec), dtchunk |-> l[1], msgdtchunk |-> l[2]]

(***************************************************************************)
(* Inputs of the time-step selection.  A zone takes one of a few profiles  *)
(* <<dl, dvel, sound speed, vol, vol0>>: Courant limited, at rest with no  *)
(* sound speed (fuzz decides), volume limited, and ties between the two    *)
(* limits and between zones.                                               *)
(***************************************************************************)
PA == <<Num(1), Num(1), Num(2), Num(1), Num(1)>>
PB == <<Num(4), Num(0), Num(0), Num(1), Num(1)>>
PC == <<Num(1), Num(2), Num(1), Num(2), Num(1)>>
PD == <<Num(2), Num(1), Num(1), Num(1), Num(2)>>
PE == <<Num(4), Num(1), Num(1), Num(3), Num(1)>>

\* the profiles of zones 0, 1, 2
DtScenarios ==
    { <<PA, PB, PC>>, <<PB, PB, PB>>, <<PD, PE, PA>>,
      <<PE, PD, PB>>, <<PC, PA, PE>>, <<PB, PD, PD>> }

DtLasts == {Num(1), Num(4)}

\* recommend as a caller may hand it in: an ordinary step, the 1.e99 of
\* the time-step reset, or a larger sentinel
InitialDts == {Num(1), Huge, <<1, 2, 1>>}
InitialRecommends == {[dt |-> d, message |-> Message("none", -1)] : d \in InitialDts}

ChunkSplits == {Arr(<<0, 2, 3>>), Arr(<<0, 1, 3>>), Arr(<<0, 1, 2, 3>>)}

\* the fields of a constructed Hydro with the inputs of the time-step
\* selection set from the profiles prof of the zones
DtFields(prof) ==
    LET F == init(CHOOSE prm \in ParamSets : TRUE, Zero)
    IN  [F EXCEPT !.mesh.zone_dl = [z \in Zones |-> prof[z][1]],
                  !.zones.zone_dvel = [z \in Zones |-> prof[z][2]],
                  !.zones.zone_sound_speed = [z \in Zones |-> prof[z][3]],
                  !.mesh.zone_vol = [z \in Zones |-> prof[z][4]],
                  !.mesh.zone_vol0 = [z \in Zones |-> prof[z][5]]]

InitDtInputs ==
    /\ \E sc \in DtScenarios :
         LET F == DtFields(Arr(sc)) IN
         /\ mesh = F.mesh
         /\ zones = F.zones
         /\ sides_and_corners = F.sides_and_corners
         /\ points = F.points
         /\ built = F
    /\ ext = Rest
    /\ dt \in DtLasts
    /\ rec0 \in InitialRecommends
    /\ recommend = rec0

NoCall == [zfirst |-> -1, zlast |-> -1, dtchunk |-> Zero, msgdtchunk |-> Message("none", -1)]

Chunks == 0 .. Cardinality(DOMAIN zone_chunks_CRS) - 2

IdleSeq == pre = rec0 /\ last = NoCall
IdleOrder == recommend2 = rec0 /\ done = <<>> /\ done2 = <<>>
IdleRace == pc = <<>> /\ loc = <<>>
IdleCycle ==
    /\ cyc = [pc |-> "off", i |-> 0, ncycles |-> 0]
    /\ future = "none"
    /\ cor = [pc |-> "off", i |-> 0]
    /\ evt = <<>>
    /\ snap = <<>>
IdleOther == par = <<>> /\ copy = <<>> /\ en = <<>>

\* recommend with the indeterminate contents of a copied message resolved
Resolved(rec) == {[rec EXCEPT !.message = m] : m \in Copied(rec.message)}

(***************************************************************************)
(* Spec: calcDtHydro called for any ranges, one call after the other       *)
(***************************************************************************)
Init ==
    /\ InitDtInputs
    /\ zone_chunks_CRS = Arr(<<0, 2, 3>>)
    /\ IdleSeq /\ IdleOrder /\ IdleRace /\ IdleCycle /\ IdleOther

CallCalcDtHydro(zfirst, zlast) ==
    /\ LET r == calcDtHydro(dt, zfirst, zlast, mesh.zone_dl, zones.zone_dvel,
                            zones.zone_sound_speed, cfl, mesh.zone_vol, mesh.zone_vol0, cflv,
                            recommend)
       IN  /\ last' = [zfirst |-> zfirst, zlast |-> zlast,
                       dtchunk |-> r.dtchunk, msgdtchunk |-> r.msgdtchunk]
           /\ recommend' \in Resolved(r.recommend)
    /\ pre' = recommend
    /\ UNCHANGED <<fieldVars, dtInputs, rec0, dtOrderVars, dtRaceVars, cycleVars, otherVars>>

Next ==
    \E zfirst \in 0 .. num_zones, zlast \in 0 .. num_zones :
        zfirst <= zlast /\ CallCalcDtHydro(zfirst, zlast)

Spec == Init /\ [][Next]_vars

(***************************************************************************)
(* SpecOrder: two runs over the same inputs, each evaluating every chunk   *)
(* once, in any order; done and done2 list the chunks in the order run.    *)
(***************************************************************************)
InitOrder ==
    /\ InitDtInputs
    /\ zone_chunks_CRS \in ChunkSplits
    /\ IdleSeq /\ IdleOrder /\ IdleRace /\ IdleCycle /\ IdleOther

ChunkCall(c, rec) ==
    calcDtHydro(dt, zone_chunks_CRS[c], zone_chunks_CRS[c + 1], mesh.zone_dl,
                zones.zone_dvel, zones.zone_sound_speed, cfl, mesh.zone_vol, mesh.zone_vol0,
                cflv, rec)

RunFirst(c) ==
    /\ c \notin Range(done)
    /\ recommend' \in Resolved(ChunkCall(c, recommend).recommend)
    /\ done' = Append(done, c)
    /\ UNCHANGED <<fieldVars, dtInputs, rec0, dtSeqVars, recommend2, done2, dtRaceVars,
                   cycleVars, otherVars>>

RunSecond(c) ==
    /\ c \notin Range(done2)
    /\ recommend2' \in Resolved(ChunkCall(c, recommend2).recommend)
    /\ done2' = Append(done2, c)
    /\ UNCHANGED <<fieldVars, dtInputs, rec0, dtSeqVars, recommend, done, dtRaceVars,
                   cycleVars, otherVars>>

NextOrder == \E c \in Chunks : RunFirst(c) \/ RunSecond(c)

SpecOrder == InitOrder /\ [][NextOrder]_vars

(***************************************************************************)
(* SpecRace: the chunks run calcDtHydro concurrently on the shared         *)
(* recommend.  The source takes no lock and uses no atomic, so the steps   *)
(* of a call are its accesses to recommend: the two reads of recommend.dt, *)
(* the write of recommend.dt and the strncpy into recommend.message (the   *)
(* limit's name, then the zone index).                                     *)
(***************************************************************************)
InitRace ==
    /\ InitDtInputs
    /\ zone_chunks_CRS \in ChunkSplits
    /\ IdleSeq /\ IdleOrder /\ IdleCycle /\ IdleOther
    /\ pc = [c \in Chunks |-> "start"]
    /\ loc = [c \in Chunks |-> [dtchunk |-> Huge, msgdtchunk |-> Uninit]]

raceFrame == <<fieldVars, dtInputs, rec0, dtSeqVars, dtOrderVars, cycleVars, otherVars>>

\* lines 583-589: the locals
RaceStart(c) ==
    /\ pc[c] = "start"
    /\ LET l == ChunkDt(dt, zone_chunks_CRS[c], zone_chunks_CRS[c + 1], mesh.zone_dl,
                        zones.zone_dvel, zones.zone_sound_speed, cfl, mesh.zone_vol,
                        mesh.zone_vol0, cflv)
       IN  loc' = [loc EXCEPT ![c] = [dtchunk |-> l[1], msgdtchunk |-> l[2]]]
    /\ pc' = [pc EXCEPT ![c] = "test1"]
    /\ UNCHANGED <<recommend, raceFrame>>

\* line 590
RaceTest1(c) ==
    /\ pc[c] = "test1"
    /\ pc' = [pc EXCEPT ![c] = IF FLess(loc[c].dtchunk, recommend.dt) THEN "test2" ELSE "done"]
    /\ UNCHANGED <<recommend, loc, raceFrame>>

\* line 593
RaceTest2(c) ==
    /\ pc[c] = "test2"
    /\ pc' = [pc EXCEPT ![c] = IF FLess(loc[c].dtchunk, recommend.dt) THEN "wdt" ELSE "done"]
    /\ UNCHANGED <<recommend, loc, raceFrame>>

\* line 594
RaceWriteDt(c) ==
    /\ pc[c] = "wdt"
    /\ recommend' = [recommend EXCEPT !.dt = loc[c].dtchunk]
    /\ pc' = [pc EXCEPT ![c] = "wmsg1"]
    /\ UNCHANGED <<loc, raceFrame>>

\* line 595, the first characters
RaceWriteMsg1(c) ==
    /\ pc[c] = "wmsg1"
    /\ \E m \in Copied(loc[c].msgdtchunk) :
         recommend' = [recommend EXCEPT !.message.limit = m.limit]
    /\ pc' = [pc EXCEPT ![c] = "wmsg2"]
    /\ UNCHANGED <<loc, raceFrame>>

\* line 595, the remaining characters
RaceWriteMsg2(c) ==
    /\ pc[c] = "wmsg2"
    /\ \E m \in Copied(loc[c].msgdtchunk) :
         recommend' = [recommend EXCEPT !.message.z = m.z]
    /\ pc' = [pc EXCEPT ![c] = "done"]
    /\ UNCHANGED <<loc, raceFrame>>

NextRace ==
    \E c \in Chunks :
        \/ RaceStart(c)
        \/ RaceTest1(c)
        \/ RaceTest2(c)
        \/ RaceWriteDt(c)
        \/ RaceWriteMsg1(c)
        \/ RaceWriteMsg2(c)

SpecRace == InitRace /\ [][NextRace]_vars

(***************************************************************************)
(* Reference quantities of the time-step claims, from the inputs           *)
(***************************************************************************)
SetMin(S) == CHOOSE m \in S : \A y \in S : FLeq(m, y)
SetMax(S) == CHOOSE m \in S : \A y \in S : FLeq(y, m)

\* zone_dl[z] * cfl / max(zone_dvel[z], zone_sound_speed[z], fuzz)
ZoneCourant(z) ==
    FDiv(FMul(mesh.zone_dl[z], cfl),
         SetMax({zones.zone_dvel[z], zones.zone_sound_speed[z], fuzz}))

CourantOf(zfirst, zlast) == {ZoneCourant(z) : z \in zfirst .. zlast - 1}

ZoneDvov(z) ==
    FAbs(FDiv(FSub(mesh.zone_vol[z], mesh.zone_vol0[z]), mesh.zone_vol0[z]))

\* dtlast * cflv / max(max over the zones of |dV| / V0, fuzz)
VolumeOf(zfirst, zlast) ==
    FDiv(FMul(dt, cflv), SetMax({ZoneDvov(z) : z \in zfirst .. zlast - 1} \cup {fuzz}))

\* the effect of the latest call on recommend: written if and only if
\* dtchunk is strictly smaller, and never increased
CommitRule ==
    /\ FLess(last.dtchunk, pre.dt) =>
           /\ recommend.dt = last.dtchunk
           /\ recommend.message \in Copied(last.msgdtchunk)
    /\ ~FLess(last.dtchunk, pre.dt) => recommend = pre
    /\ FLeq(recommend.dt, pre.dt)
    /\ FLeq(recommend.dt, rec0.dt)

\* C4 as claimed: dtchunk is the minimum of the Courant limit (the minimum
\* over the chunk's zones) and the volume-change limit, the message names
\* the tighter of the two, and recommend is written if and only if dtchunk
\* is strictly smaller than recommend.dt, so that recommend.dt never increases.
\* (Stated for the chunks that hold at least one zone.)
C4_AsClaimed ==
    (last # NoCall /\ last.zfirst < last.zlast) =>
        LET C == CourantOf(last.zfirst, last.zlast)
            V == VolumeOf(last.zfirst, last.zlast)
        IN  /\ last.dtchunk = SetMin(C \cup {V})
            /\ (\A c \in C : FLess(V, c)) => last.msgdtchunk.limit = "dV/V"
            /\ (\E c \in C : FLess(c, V)) => last.msgdtchunk.limit = "Courant"
            /\ CommitRule

\* C4 (amended): dtchunk is the minimum of 1.e99, the Courant limit and the
\* volume-change limit.  When it is below 1.e99 the message names the limit
\* that set it: the volume-change limit if that is strictly the smaller,
\* otherwise the Courant limit with a zone of the chunk that attains it.
\* When neither limit is below 1.e99 the chunk's message is never set.
\* recommend is written if and only if dtchunk is strictly smaller than
\* recommend.dt, and recommend.dt never increases.
C4_ChunkMinimum ==
    last # NoCall =>
        LET C == CourantOf(last.zfirst, last.zlast)
            V == VolumeOf(last.zfirst, last.zlast)
            m == last.msgdtchunk
        IN  /\ last.dtchunk = SetMin(C \cup {V, Huge})
            /\ IF ~FLess(last.dtchunk, Huge) THEN m = Uninit
               ELSE IF FLess(V, SetMin(C \cup {Huge})) THEN m.limit = "dV/V"
               ELSE /\ m.limit = "Courant"
                    /\ m.z \in last.zfirst .. last.zlast - 1
                    /\ ZoneCourant(m.z) = last.dtchunk
            /\ CommitRule

\* a second call lowered recommend again, to the Courant limit of a zone
\* that is not the first of its chunk
C4_Witness ==
    /\ last # NoCall
    /\ pre # rec0
    /\ last.zlast - last.zfirst >= 2
    /\ FLess(last.dtchunk, pre.dt)
    /\ last.msgdtchunk.limit = "Courant"
    /\ last.msgdtchunk.z > last.zfirst
    /\ recommend.dt = last.dtchunk

(***************************************************************************)
ChunkDtOf(c) ==
    ChunkDt(dt, zone_chunks_CRS[c], zone_chunks_CRS[c + 1], mesh.zone_dl, zones.zone_dvel,
            zones.zone_sound_speed, cfl, mesh.zone_vol, mesh.zone_vol0, cflv)[1]

MinChunkDt == SetMin({ChunkDtOf(c) : c \in Chunks})

BothRunsDone == Range(done) = Chunks /\ Range(done2) = Chunks

\* C2 as claimed: whatever the two orders, both runs end with the same
\* recommend.dt and the same message
C2_AsClaimed ==
    BothRunsDone => recommend.dt = recommend2.dt /\ recommend.message = recommend2.message

\* C2 (amended): both runs end with the same recommend.dt; they end with the
\* same message when no chunk proposes less than the initial recommend.dt,
\* or when exactly one chunk attains the minimum proposal and it is below 1.e99
C2_SameStep ==
    BothRunsDone =>
        /\ recommend.dt = recommend2.dt
        /\ \/ ~FLess(MinChunkDt, rec0.dt)
           \/ /\ Cardinality({c \in Chunks : ChunkDtOf(c) = MinChunkDt}) = 1
              /\ FLess(MinChunkDt, Huge)
           => recommend.message = recommend2.message

\* two different orders of three chunks, the second of which lowers the
\* committed step of the first in one run
C2_Witness ==
    /\ BothRunsDone
    /\ done # done2
    /\ Len(done) = 3
    /\ FLess(recommend.dt, rec0.dt)
    /\ recommend.message = recommend2.message
    /\ recommend.message.limit = "dV/V"
    /\ Cardinality({ChunkDtOf(c) : c \in Chunks}) = 3

(***************************************************************************)
RaceDone == \A c \in Chunks : pc[c] = "done"

\* C1: once every chunk has finished, recommend.dt is the minimum of its
\* initial value and every chunk's dtchunk, and if a chunk lowered it the
\* message is the message of a chunk whose dtchunk is that minimum
C1_FinalIsMinimum ==
    (pc # <<>> /\ RaceDone) =>
        LET least == SetMin({loc[c].dtchunk : c \in Chunks} \cup {rec0.dt})
        IN  /\ recommend.dt = least
            /\ FLess(least, rec0.dt) =>
                   \E c \in Chunks : /\ loc[c].dtchunk = least
                                     /\ recommend.message \in Copied(loc[c].msgdtchunk)
(***************************************************************************)
(* SpecCycle: the driver calls doCycle(dt) cycle after cycle.  doCycle     *)
(* runs the point-chunk loop, the side-chunk loop, sumToPoints, launches   *)
(* the corrector task and blocks on its Future; the corrector runs as a    *)
(* task of its own.  evt lists what has happened since the cycle began.    *)
(***************************************************************************)
MaxCycles == 2
Dts == {Frac(1, 2), One}

Event(e, i) == [e |-> e, i |-> i]

\* the TimeStep the corrector task starts from
FreshTimeStep == [dt |-> Huge, message |-> Message("none", -1)]

InitCycle ==
    /\ \E prm \in ParamSets, junk \in JunkWork :
         LET F == init(prm, junk) IN
         /\ mesh = F.mesh
         /\ zones = F.zones
         /\ sides_and_corners = F.sides_and_corners
         /\ points = F.points
         /\ built = F
         /\ snap = F
    /\ ext \in Externals
    /\ dt \in Dts
    /\ zone_chunks_CRS = Arr(<<0, 2, 3>>)
    /\ rec0 = FreshTimeStep
    /\ recommend = rec0
    /\ IdleSeq /\ IdleOrder /\ IdleRace /\ IdleOther
    /\ cyc = [pc |-> "idle", i |-> 0, ncycles |-> 0]
    /\ future = "none"
    /\ cor = [pc |-> "off", i |-> 0]
    /\ evt = <<>>

cycleFrame == <<zone_chunks_CRS, ext, built, rec0, dtSeqVars, dtOrderVars, dtRaceVars, otherVars>>

\* the driver enters doCycle(d)
DoCycle(d) ==
    /\ cyc.pc = "idle"
    /\ cyc.ncycles < MaxCycles
    /\ dt' = d
    /\ snap' = Fields
    /\ evt' = <<>>
    /\ cyc' = [cyc EXCEPT !.pc = "pt", !.i = 0]
    /\ UNCHANGED <<fieldVars, recommend, future, cor, cycleFrame>>

\* lines 204-215, one point chunk
PtChunk ==
    /\ cyc.pc = "pt"
    /\ SetFields(PredictPoints(Fields, dt, cyc.i))
    /\ evt' = Append(evt, Event("pt", cyc.i))
    /\ cyc' = IF cyc.i + 1 < num_pt_chunks
              THEN [cyc EXCEPT !.i = @ + 1]
              ELSE [cyc EXCEPT !.pc = "side", !.i = 0]
    /\ UNCHANGED <<dt, snap, recommend, future, cor, cycleFrame>>

\* lines 217-251, one side chunk
SideChunk ==
    /\ cyc.pc = "side"
    /\ SetFields(PredictSides(Fields, ext, cyc.i))
    /\ evt' = Append(evt, Event("side", cyc.i))
    /\ cyc' = IF cyc.i + 1 < num_side_chunks
              THEN [cyc EXCEPT !.i = @ + 1]
              ELSE [cyc EXCEPT !.pc = "sum", !.i = 0]
    /\ UNCHANGED <<dt, snap, recommend, future, cor, cycleFrame>>

\* line 254
SumToPoints ==
    /\ cyc.pc = "sum"
    /\ SetFields(sumToPoints(Fields, sides_and_corners.crnr_weighted_mass,
                             sides_and_corners.crnr_force_tot))
    /\ evt' = Append(evt, Event("sumToPoints", -1))
    /\ cyc' = [cyc EXCEPT !.pc = "launch"]
    /\ UNCHANGED <<dt, snap, recommend, future, cor, cycleFrame>>

\* lines 256-286: runtime->execute_task
LaunchCorrector ==
    /\ cyc.pc = "launch"
    /\ future' = "running"
    /\ cor' = [pc |-> "pt", i |-> 0]
    /\ recommend' = FreshTimeStep
    /\ evt' = Append(evt, Event("launch", -1))
    /\ cyc' = [cyc EXCEPT !.pc = "wait"]
    /\ UNCHANGED <<fieldVars, dt, snap, cycleFrame>>

\* get_result without the wait
ResultTaken == TRUE

\* line 287: future.get_result blocks until the task has finished
ResultReady == future = "resolved"

\* lines 287-288
GetResult ==
    /\ cyc.pc = "wait"
    /\ ResultReady
    /\ future' = "none"
    /\ evt' = Append(evt, Event("return", -1))
    /\ cyc' = [cyc EXCEPT !.pc = "idle", !.ncycles = @ + 1]
    /\ UNCHANGED <<fieldVars, dt, snap, recommend, cor, cycleFrame>>

\* the corrector task, one point chunk
CorPtChunk ==
    /\ cor.pc = "pt"
    /\ SetFields(CorrectPoints(Fields, dt, cor.i))
    /\ cor' = IF cor.i + 1 < num_pt_chunks
              THEN [cor EXCEPT !.i = @ + 1]
              ELSE [cor EXCEPT !.pc = "zone", !.i = 0]
    /\ UNCHANGED <<dt, snap, recommend, future, cyc, evt, cycleFrame>>

\* the corrector task, one side/zone chunk, with its time-step proposal
CorZoneChunk ==
    /\ cor.pc = "zone"
    /\ \E F \in {CorrectZones(Fields, ext, dt, cor.i)} :
         /\ SetFields(F)
         /\ \E r \in {calcDtHydro(dt, side_zone_chunks_first(cor.i),
                                   side_zone_chunks_last(cor.i), F.mesh.zone_dl,
                                   F.zones.zone_dvel, F.zones.zone_sound_speed, cfl,
                                   F.mesh.zone_vol, F.mesh.zone_vol0, cflv, recommend)} :
              recommend' \in Resolved(r.recommend)
    /\ cor' = IF cor.i + 1 < num_side_chunks
              THEN [cor EXCEPT !.i = @ + 1]
              ELSE [cor EXCEPT !.pc = "finish", !.i = 0]
    /\ UNCHANGED <<dt, snap, future, cyc, evt, cycleFrame>>

\* the corrector task returns its TimeStep: the Future resolves
CorFinish ==
    /\ cor.pc = "finish"
    /\ future' = "resolved"
    /\ cor' = [cor EXCEPT !.pc = "off"]
    /\ evt' = Append(evt, Event("resolved", -1))
    /\ UNCHANGED <<fieldVars, dt, snap, recommend, cyc, cycleFrame>>

NextCycle ==
    \/ \E d \in Dts : DoCycle(d)
    \/ PtChunk
    \/ SideChunk
    \/ SumToPoints
    \/ LaunchCorrector
    \/ GetResult
    \/ CorPtChunk
    \/ CorZoneChunk
    \/ CorFinish

SpecCycle == InitCycle /\ [][NextCycle]_vars

(***************************************************************************)
(* Claims on the cycle                                                     *)
(***************************************************************************)
Happened(e) == {k \in 1 .. Len(evt) : evt[k].e = e}
ChunksOf(e) == {evt[k].i : k \in Happened(e)}
Before(A, B) == \A a \in A, b \in B : a < b

\* C3: in every cycle all point chunks are predicted before any side chunk
\* is processed, sumToPoints comes after all side chunks and before the
\* launch of the corrector, doCycle returns only after the corrector's
\* Future has resolved, and while a corrector is in flight doCycle stands
\* at get_result: no predictor step of a next cycle runs.
C3_CycleOrder ==
    /\ Happened("side") # {} => ChunksOf("pt") = PtChunks
    /\ Before(Happened("pt"), Happened("side"))
    /\ Happened("sumToPoints") # {} => ChunksOf("side") = SideChunks
    /\ Before(Happened("side"), Happened("sumToPoints"))
    /\ Happened("launch") # {} => Happened("sumToPoints") # {}
    /\ Before(Happened("sumToPoints"), Happened("launch"))
    /\ Happened("return") # {} => Happened("resolved") # {}
    /\ Before(Happened("launch"), Happened("resolved"))
    /\ Before(Happened("resolved"), Happened("return"))
    /\ future = "running" => cyc.pc = "wait"
    /\ cor.pc # "off" => cyc.pc = "wait"

\* the second cycle has returned, after a complete sequence of events
C3_Witness ==
    /\ cyc.ncycles = 2
    /\ cyc.pc = "idle"
    /\ Len(evt) = num_pt_chunks + num_side_chunks + 4
    /\ evt[Len(evt)].e = "return"

\* C5: zone_mass is what init set it to, zone_rho[z] * zone_vol[z] of the
\* constructed state, in every state of every cycle
C5_MassFrozen ==
    \A z \in Zones :
        /\ zones.zone_mass[z] = built.zones.zone_mass[z]
        /\ built.zones.zone_mass[z] = FMul(built.zones.zone_rho[z], built.mesh.zone_vol[z])

\* two cycles have run, the volumes and the densities have changed, the
\* subregion has given the zones different masses
C5_Witness ==
    /\ cyc.ncycles = 2
    /\ cyc.pc = "idle"
    /\ mesh.zone_vol # built.mesh.zone_vol
    /\ zones.zone_rho # built.zones.zone_rho
    /\ zones.zone_mass[0] # zones.zone_mass[1]
    /\ zones.zone_mass = built.zones.zone_mass

AllZero(arr) == \A i \in DOMAIN arr : arr[i] = VZero

\* the cycle that has just returned began with all points at rest and its
\* force models returned zero for every side
ZeroForceCycle ==
    /\ cyc.pc = "idle"
    /\ cyc.ncycles >= 1
    /\ AllZero(snap.points.pt_vel)
    /\ AllZero(sides_and_corners.side_force_pres)
    /\ AllZero(sides_and_corners.side_force_visc)
    /\ AllZero(sides_and_corners.side_force_tts)

\* C6: after a cycle that began at rest and saw zero side forces, every
\* point has pt_x_pred = pt_x0 = its position before the cycle, zero
\* acceleration, pt_vel = pt_vel0 = 0 and its position unchanged, and every
\* zone has its zone_energy_tot and zone_work unchanged
C6_ZeroForceFixedPoint ==
    ZeroForceCycle =>
        /\ mesh.pt_x_pred = snap.mesh.pt_x
        /\ mesh.pt_x0 = snap.mesh.pt_x
        /\ AllZero(points.pt_accel)
        /\ AllZero(points.pt_vel)
        /\ AllZero(points.pt_vel0)
        /\ mesh.pt_x = snap.mesh.pt_x
        /\ zones.zone_energy_tot = snap.zones.zone_energy_tot
        /\ zones.zone_work = snap.zones.zone_work
        /\ AllZero(sides_and_corners.crnr_force_tot)
        /\ AllZero(mesh.pt_force)

\* a second zero-force cycle has returned; zone_work held a nonzero value
C6_Witness ==
    /\ ZeroForceCycle
    /\ cyc.ncycles = 2
    /\ zones.zone_work[0] # Zero
    /\ \E p \in Points : mesh.pt_x[p] # VZero

(***************************************************************************)
(* SpecCopy: copyZonesToLegion.  The caller hands in three accessors and   *)
(* an index space; the IndexIterator visits the elements of the index      *)
(* space in order.  An index space of more than num_zones elements makes   *)
(* the loop read zone_rho[z], zone_energy_density[z] and zone_pressure_[z] *)
(* past the end of the arrays: the read yields some value or the process   *)
(* dies on it.  A failed assert aborts the process.                        *)
(***************************************************************************)
MaxElements == 4
Ptrs == 0 .. MaxElements

\* the index spaces handed in: the subsets of Ptrs, in pointer order
RECURSIVE Ascending(_)
Ascending(S) ==
    IF S = {} THEN <<>>
    ELSE LET m == CHOOSE a \in S : \A b \in S : a <= b
         IN  <<m>> \o Ascending(S \ {m})

IndexSpaces == {Ascending(S) : S \in SUBSET Ptrs}

Unwritten == <<"unwritten">>
OutOfBounds == {Num(7), FNeg(One)}

\* the accessors before the call
FreshAccessors ==
    [rho_acc |-> [q \in Ptrs |-> Unwritten],
     energy_density_acc |-> [q \in Ptrs |-> Unwritten],
     pressure_acc |-> [q \in Ptrs |-> Unwritten]]

\* arr[z], or what lies behind the array
ReadZone(arr, z, beyond) == IF z \in DOMAIN arr THEN arr[z] ELSE beyond

\* lines 648-655: the loop from the k-th element on; beyond is what the
\* reads past the end of the arrays yield
RECURSIVE CopyLoop(_, _, _, _, _)
CopyLoop(k, ispace_zones, acc, Z, beyond) ==
    IF k > Len(ispace_zones) THEN acc
    ELSE LET zone_ptr == ispace_zones[k]
             z == k - 1
         IN  CopyLoop(k + 1, ispace_zones,
                      [acc EXCEPT !.rho_acc[zone_ptr] = ReadZone(Z.zone_rho, z, beyond),
                                  !.energy_density_acc[zone_ptr] =
                                      ReadZone(Z.zone_energy_density, z, beyond),
                                  !.pressure_acc[zone_ptr] =
                                      ReadZone(Z.zone_pressure_, z, beyond)],
                      Z, beyond)

\* the assert accepting any count up to num_zones
CountCheckAtMost(z) == z <= num_zones

\* line 656: assert(z == mesh->num_zones)
CountCheck(z) == z = num_zones

InitCopy ==
    /\ \E prm \in ParamSets, x \in Externals :
         LET F == SideForce(init(prm, Zero), x, 0) IN
         /\ mesh = F.mesh
         /\ zones = F.zones
         /\ sides_and_corners = F.sides_and_corners
         /\ points = F.points
         /\ built = F
         /\ ext = x
    /\ dt = One
    /\ zone_chunks_CRS = Arr(<<0, 2, 3>>)
    /\ rec0 = FreshTimeStep
    /\ recommend = rec0
    /\ IdleSeq /\ IdleOrder /\ IdleRace /\ IdleCycle
    /\ par = <<>> /\ en = <<>>
    /\ copy = [outcome |-> "none", ispace_zones |-> <<>>, acc |-> FreshAccessors]

\* one call with fresh accessors and the index space ispace_zones
CopyZonesToLegion(ispace_zones) ==
    /\ \E beyond \in OutOfBounds, survives \in BOOLEAN :
         LET z == Len(ispace_zones)
             overrun == z > num_zones
         IN  IF overrun /\ ~survives
             THEN copy' = [outcome |-> "crashed", ispace_zones |-> ispace_zones,
                           acc |-> CopyLoop(1, SubSeq(ispace_zones, 1, num_zones),
                                            FreshAccessors, zones, beyond)]
             ELSE copy' = [outcome |-> IF CountCheck(z) THEN "returned" ELSE "aborted",
                           ispace_zones |-> ispace_zones,
                           acc |-> CopyLoop(1, ispace_zones, FreshAccessors, zones, beyond)]
    /\ UNCHANGED <<fieldVars, dtInputs, recommend, rec0, dtSeqVars, dtOrderVars, dtRaceVars,
                   cycleVars, par, en>>

NextCopy == \E ispace_zones \in IndexSpaces : CopyZonesToLegion(ispace_zones)

SpecCopy == InitCopy /\ [][NextCopy]_vars

\* the k-th visited element holds zone k - 1's density, energy density and
\* pressure, for the first n elements
CopiedUpTo(n) ==
    \A k \in 1 .. n :
        /\ copy.acc.rho_acc[copy.ispace_zones[k]] = zones.zone_rho[k - 1]
        /\ copy.acc.energy_density_acc[copy.ispace_zones[k]] = zones.zone_energy_density[k - 1]
        /\ copy.acc.pressure_acc[copy.ispace_zones[k]] = zones.zone_pressure_[k - 1]

\* C7: a call writes zone z's density, energy density and pressure to the
\* z-th visited element; it returns if and only if the index space holds
\* exactly num_zones elements, and with any other count the process ends
\* (the assert aborts it, or the read past the arrays kills it)
C7_CountChecked ==
    copy.outcome # "none" =>
        LET n == Len(copy.ispace_zones)
        IN  /\ copy.outcome = "returned" <=> n = num_zones
            /\ n # num_zones => copy.outcome \in {"aborted", "crashed"}
            /\ CopiedUpTo(IF n < num_zones THEN n ELSE num_zones)
            /\ copy.outcome = "returned" =>
                   \A q \in Ptrs \ Range(copy.ispace_zones) :
                       copy.acc.rho_acc[q] = Unwritten

\* a call over exactly num_zones elements that are not the first pointers,
\* with three different densities copied, has returned
C7_Witness ==
    /\ copy.outcome = "returned"
    /\ copy.ispace_zones[1] # 0
    /\ Cardinality({copy.acc.pressure_acc[q] : q \in Range(copy.ispace_zones)}) >= 2
    /\ zones.zone_rho[0] # zones.zone_rho[1]

(***************************************************************************)
(* SpecEnergy: writeEnergyCheck in every subdomain.  Each subdomain is a   *)
(* Hydro of its own, with its own fields and its colour my_color; all      *)
(* share the global-sum service.  A subdomain's n-th Parallel::globalSum   *)
(* joins the n-th sum of the service; the Future of a sum resolves, to     *)
(* the sum of the values, once every subdomain has joined it.              *)
(***************************************************************************)
NumSubdomains == 2
Colors == 0 .. NumSubdomains - 1

\* the fields a subdomain may hold when the check is made
EnergyFields ==
    {PredictPoints(init(prm, Zero), One, 0) :
        prm \in {q \in ParamSets : q.vel_init_radial # Zero}}
    \cup {init(CHOOSE q \in ParamSets : q.vel_init_radial = Zero /\ q.subregion.set, Zero)}

\* lines 605-622: the chunk loop; returns <<ei, ek>>
RECURSIVE EnergyLoop(_, _, _, _)
EnergyLoop(sch, ei, ek, F) ==
    IF sch >= num_side_chunks THEN <<ei, ek>>
    ELSE LET chunk == sumEnergy(F.zones.zone_energy_tot, F.mesh.zone_area, F.mesh.zone_vol,
                                F.zones.zone_mass, side_mass_frac, F.mesh.pt_x,
                                F.points.pt_vel, Zero, Zero,
                                side_zone_chunks_first(sch), side_zone_chunks_last(sch),
                                side_chunks_CRS[sch], side_chunks_CRS[sch + 1])
         IN  EnergyLoop(sch + 1, FAdd(ei, chunk[1]), FAdd(ek, chunk[2]), F)

\* the service: the values joined to sum n so far, by colour
NoValue == <<"none">>
Joined(n) == {c \in Colors : en.sums[n][c] # NoValue}

RECURSIVE SumByColor(_, _, _)
SumByColor(c, contrib, acc) ==
    IF c >= NumSubdomains THEN acc ELSE SumByColor(c + 1, contrib, FAdd(acc, contrib[c]))

\* the result of sum n, once all have joined
GlobalSumResult(n) == SumByColor(0, en.sums[n], Zero)

\* every subdomain prints the totals
ReportsAlways(my_color) == TRUE

\* line 631: if (my_color == 0)
Reports(my_color) == my_color = 0

InitEnergy ==
    /\ LET F == init(CHOOSE prm \in ParamSets : TRUE, Zero) IN
         /\ mesh = F.mesh
         /\ zones = F.zones
         /\ sides_and_corners = F.sides_and_corners
         /\ points = F.points
         /\ built = F
    /\ ext = Rest
    /\ dt = One
    /\ zone_chunks_CRS = Arr(<<0, 2, 3>>)
    /\ rec0 = FreshTimeStep
    /\ recommend = rec0
    /\ IdleSeq /\ IdleOrder /\ IdleRace /\ IdleCycle
    /\ par = <<>> /\ copy = <<>>
    /\ \E hydro \in [Colors -> EnergyFields] :
         en = [hydro |-> hydro,
               pc |-> [c \in Colors |-> "loop"],
               ei |-> [c \in Colors |-> Zero],
               ek |-> [c \in Colors |-> Zero],
               nsubmitted |-> [c \in Colors |-> 0],
               sums |-> [n \in 1 .. 2 |-> [c \in Colors |-> NoValue]],
               out |-> <<>>]

energyFrame == <<fieldVars, dtInputs, recommend, rec0, dtSeqVars, dtOrderVars, dtRaceVars,
                 cycleVars, par, copy>>

\* lines 605-622
EnergyChunks(c) ==
    /\ en.pc[c] = "loop"
    /\ LET r == EnergyLoop(0, Zero, Zero, en.hydro[c])
       IN  en' = [en EXCEPT !.ei[c] = r[1], !.ek[c] = r[2], !.pc[c] = "sum_ei"]
    /\ UNCHANGED energyFrame

\* Parallel::globalSum(value, ...) called by subdomain c
globalSum(c, value) ==
    LET n == en.nsubmitted[c] + 1
    IN  [en EXCEPT !.nsubmitted[c] = n, !.sums[n][c] = value]

\* line 625
SubmitEi(c) ==
    /\ en.pc[c] = "sum_ei"
    /\ en' = [globalSum(c, en.ei[c]) EXCEPT !.pc[c] = "get_ei"]
    /\ UNCHANGED energyFrame

\* line 626
GetEi(c) ==
    /\ en.pc[c] = "get_ei"
    /\ Joined(en.nsubmitted[c]) = Colors
    /\ en' = [en EXCEPT !.ei[c] = GlobalSumResult(en.nsubmitted[c]), !.pc[c] = "sum_ek"]
    /\ UNCHANGED energyFrame

\* line 628
SubmitEk(c) ==
    /\ en.pc[c] = "sum_ek"
    /\ en' = [globalSum(c, en.ek[c]) EXCEPT !.pc[c] = "get_ek"]
    /\ UNCHANGED energyFrame

\* line 629
GetEk(c) ==
    /\ en.pc[c] = "get_ek"
    /\ Joined(en.nsubmitted[c]) = Colors
    /\ en' = [en EXCEPT !.ek[c] = GlobalSumResult(en.nsubmitted[c]), !.pc[c] = "report"]
    /\ UNCHANGED energyFrame

\* lines 631-637
Report(c) ==
    /\ en.pc[c] = "report"
    /\ en' = [en EXCEPT !.pc[c] = "done",
                        !.out = IF Reports(c)
                                THEN Append(@, [color |-> c, internal |-> en.ei[c],
                                                kinetic |-> en.ek[c],
                                                total |-> FAdd(en.ei[c], en.ek[c])])
                                ELSE @]
    /\ UNCHANGED energyFrame

NextEnergy ==
    \E c \in Colors :
        \/ EnergyChunks(c)
        \/ SubmitEi(c)
        \/ GetEi(c)
        \/ SubmitEk(c)
        \/ GetEk(c)
        \/ Report(c)

SpecEnergy == InitEnergy /\ [][NextEnergy]_vars

\* the local sums of subdomain c and the sums over all subdomains
LocalEnergy(c) == EnergyLoop(0, Zero, Zero, en.hydro[c])
TotalEnergy(k) == SumByColor(0, [c \in Colors |-> LocalEnergy(c)[k]], Zero)

\* C8: a subdomain joins the first sum with its local internal energy and
\* the second with its local kinetic energy, the second only after the
\* first has resolved for it; it submits two values and no more; only
\* colour 0 reports, once, and what it reports are the sums of the local
\* internal and of the local kinetic energies over all subdomains
C8_EnergyCheck ==
    en # <<>> =>
        /\ \A c \in Colors :
            /\ en.pc[c] = "loop" => en.nsubmitted[c] = 0
            /\ en.pc[c] \in {"get_ei", "sum_ek"} => en.nsubmitted[c] = 1
            /\ en.pc[c] \in {"get_ek", "report", "done"} => en.nsubmitted[c] = 2
            /\ en.nsubmitted[c] >= 1 => en.sums[1][c] = LocalEnergy(c)[1]
            /\ en.nsubmitted[c] = 2 =>
                   /\ en.sums[2][c] = LocalEnergy(c)[2]
                   /\ Joined(1) = Colors
            /\ en.pc[c] \in {"report", "done"} => Joined(2) = Colors
        /\ Len(en.out) <= 1
        /\ \A k \in 1 .. Len(en.out) :
            /\ en.out[k].color = 0
            /\ en.out[k].internal = TotalEnergy(1)
            /\ en.out[k].kinetic = TotalEnergy(2)

\* every subdomain is through; colour 0 has reported totals to which
\* another subdomain contributed, with kinetic energy in them
C8_Witness ==
    /\ en # <<>>
    /\ \A c \in Colors : en.pc[c] = "done"
    /\ Len(en.out) = 1
    /\ en.out[1].kinetic # Zero
    /\ en.out[1].internal # LocalEnergy(0)[1]
    /\ en.hydro[0] # en.hydro[1]

(***************************************************************************)
(* SpecChunks: the side-chunk loop of doCycle with the chunks taken in any *)
(* order and their parts interleaved in any way.  The arrays still hold    *)
(* the values of the previous cycle when the phase begins.                 *)
(***************************************************************************)
RECURSIVE PointPhase(_, _, _)
PointPhase(F, dt_, pch) ==
    IF pch >= num_pt_chunks THEN F ELSE PointPhase(PredictPoints(F, dt_, pch), dt_, pch + 1)

\* the loop as doCycle runs it: chunk after chunk
RECURSIVE SidePhase(_, _, _)
SidePhase(F, x, sch) ==
    IF sch >= num_side_chunks THEN F ELSE SidePhase(PredictSides(F, x, sch), x, sch + 1)

\* the zones whose predicted volume, area and density part 2 reads
MassReadsZones(sch) ==
    (side_zone_chunks_first(sch) .. side_zone_chunks_last(sch) - 1)
    \cup {map_side2zone[s] : s \in side_chunks_CRS[sch] .. side_chunks_CRS[sch + 1] - 1}

\* the sides whose force fields sumCrnrForce reads
SumReadsSides(sch) ==
    UNION {{s, mapSideToSidePrev(s)} : s \in side_chunks_CRS[sch] .. side_chunks_CRS[sch + 1] - 1}

\* no chunk: an index past the chunks
Nobody == num_side_chunks

InitChunks ==
    /\ \E prm \in ParamSets, x0 \in Externals, x \in Externals :
         LET F == PointPhase(SidePhase(PointPhase(init(prm, Zero), One, 0), x0, 0), One, 0) IN
         /\ mesh = F.mesh
         /\ zones = F.zones
         /\ sides_and_corners = F.sides_and_corners
         /\ points = F.points
         /\ built = init(prm, Zero)
         /\ ext = x
         /\ par = [mode |-> "chunks",
                   step |-> [sch \in SideChunks |-> 0],
                   order |-> <<>>,
                   geom_by |-> [z \in Zones |-> Nobody],
                   rho_by |-> [z \in Zones |-> Nobody],
                   force_by |-> [s \in Sides |-> Nobody],
                   foreign |-> FALSE,
                   sequential |-> SidePhase(F, x, 0)]
    /\ dt = One
    /\ zone_chunks_CRS = Arr(<<0, 2, 3>>)
    /\ rec0 = FreshTimeStep
    /\ recommend = rec0
    /\ IdleSeq /\ IdleOrder /\ IdleRace /\ IdleCycle
    /\ copy = <<>> /\ en = <<>>

chunksFrame == <<dtInputs, recommend, rec0, dtSeqVars, dtOrderVars, dtRaceVars, cycleVars,
                 copy, en>>

Owned(by, S, sch) == \A i \in S : by[i] = sch
Stamp(by, first, lastx, sch) == [i \in DOMAIN by |-> IF InChunk(i, first, lastx) THEN sch ELSE by[i]]

ChunkGeom(sch) ==
    /\ par.mode = "chunks" /\ par.step[sch] = 0
    /\ SetFields(SideGeom(Fields, ext, sch))
    /\ par' = [par EXCEPT !.step[sch] = 1,
                          !.order = Append(@, sch),
                          !.geom_by = Stamp(@, side_zone_chunks_first(sch),
                                            side_zone_chunks_last(sch), sch)]
    /\ UNCHANGED chunksFrame

ChunkMass(sch) ==
    /\ par.mode = "chunks" /\ par.step[sch] = 1
    /\ SetFields(SideMass(Fields, sch))
    /\ LET rho_by == Stamp(par.rho_by, side_zone_chunks_first(sch),
                           side_zone_chunks_last(sch), sch)
       IN  par' = [par EXCEPT !.step[sch] = 2,
                              !.order = Append(@, sch),
                              !.rho_by = rho_by,
                              !.foreign = \/ @
                                          \/ ~Owned(par.geom_by, MassReadsZones(sch), sch)
                                          \/ ~Owned(rho_by, MassReadsZones(sch), sch)]
    /\ UNCHANGED chunksFrame

ChunkForce(sch) ==
    /\ par.mode = "chunks" /\ par.step[sch] = 2
    /\ SetFields(SideForce(Fields, ext, sch))
    /\ par' = [par EXCEPT !.step[sch] = 3,
                          !.order = Append(@, sch),
                          !.force_by = Stamp(@, side_chunks_CRS[sch],
                                             side_chunks_CRS[sch + 1], sch)]
    /\ UNCHANGED chunksFrame

ChunkSum(sch) ==
    /\ par.mode = "chunks" /\ par.step[sch] = 3
    /\ SetFields(SideSum(Fields, sch))
    /\ par' = [par EXCEPT !.step[sch] = 4,
                          !.order = Append(@, sch),
                          !.foreign = @ \/ ~Owned(par.force_by, SumReadsSides(sch), sch)]
    /\ UNCHANGED chunksFrame

NextChunks ==
    \E sch \in SideChunks :
        \/ ChunkGeom(sch)
        \/ ChunkMass(sch)
        \/ ChunkForce(sch)
        \/ ChunkSum(sch)

SpecChunks == InitChunks /\ [][NextChunks]_vars

PhaseDone == \A sch \in SideChunks : par.step[sch] = 4

\* C9: whatever the order and interleaving of the chunks, no part of a
\* chunk reads a zone or side value of this phase that the chunk itself
\* has not computed in it, and when all chunks are through,
\* crnr_weighted_mass and crnr_force_tot (and the zone fields) are what
\* the loop in chunk order yields
C9_ChunksIndependent ==
    (par # <<>> /\ par.mode = "chunks") =>
        /\ ~par.foreign
        /\ PhaseDone =>
               /\ sides_and_corners.crnr_weighted_mass =
                      par.sequential.sides_and_corners.crnr_weighted_mass
               /\ sides_and_corners.crnr_force_tot =
                      par.sequential.sides_and_corners.crnr_force_tot
               /\ zones = par.sequential.zones

\* the phase is through with the second chunk begun first and the chunks
\* interleaved, and the forces differ from those of the previous cycle
C9_Witness ==
    /\ par # <<>> /\ par.mode = "chunks"
    /\ PhaseDone
    /\ par.order[1] = 1
    /\ par.order[2] = 0
    /\ par.order[Len(par.order)] = 0
    /\ sides_and_corners.crnr_force_tot # built.sides_and_corners.crnr_force_tot
    /\ \E s \in Sides : sides_and_corners.crnr_weighted_mass[s] # Zero

(***************************************************************************)
(* SpecForce: sumCrnrForce over force fields of any contents               *)
(***************************************************************************)
SidesOf(z) == zone_pts_ptr[z] .. zone_pts_ptr[z + 1] - 1

\* the forces a model may return for a side: none, a large one, a small one
ForceValues == {VZero, <<Num(MantHi), One>>, <<Frac(1, 2), FNeg(Two)>>}

\* the zone whose sides take every combination of ForceValues
HotZone == CHOOSE z \in Zones : Cardinality(SidesOf(z)) = 4

InitForce ==
    /\ \E prm \in {q \in ParamSets : q.vel_init_radial = Zero /\ ~q.subregion.set},
          sfp \in [SidesOf(HotZone) -> ForceValues],
          q \in {Rest, Push}, t \in {Rest, Push} :
         LET F == init(prm, Zero) IN
         /\ mesh = F.mesh
         /\ zones = F.zones
         /\ points = F.points
         /\ built = F
         /\ sides_and_corners =
                [F.sides_and_corners EXCEPT
                    !.side_force_pres = [s \in Sides |-> IF s \in SidesOf(HotZone) THEN sfp[s]
                                                         ELSE Push.side_force_pres[s]],
                    !.side_force_visc = q.side_force_visc,
                    !.side_force_tts = t.side_force_tts]
    /\ ext = Rest
    /\ par = [mode |-> "force", i |-> 0]
    /\ dt = One
    /\ zone_chunks_CRS = Arr(<<0, 2, 3>>)
    /\ rec0 = FreshTimeStep
    /\ recommend = rec0
    /\ IdleSeq /\ IdleOrder /\ IdleRace /\ IdleCycle
    /\ copy = <<>> /\ en = <<>>

\* line 250, for the next side chunk
SumCrnrForceChunk ==
    /\ par.mode = "force"
    /\ par.i < num_side_chunks
    /\ SetFields(SideSum(Fields, par.i))
    /\ par' = [par EXCEPT !.i = @ + 1]
    /\ UNCHANGED chunksFrame

NextForce == SumCrnrForceChunk

SpecForce == InitForce /\ [][NextForce]_vars

\* sumCrnrForce has run over side s / over all sides of zone z
SideSummed(s) == s < side_chunks_CRS[par.i]
ZoneSummed(z) == \A s \in SidesOf(z) : SideSummed(s)

ForceSumAt(s) ==
    SideForceSum(sides_and_corners.side_force_pres, sides_and_corners.side_force_visc,
                 sides_and_corners.side_force_tts, s)

\* sums and differences without rounding
ExactVAdd(a, b) == <<ExactAdd(a[1], b[1]), ExactAdd(a[2], b[2])>>
ExactVSub(a, b) == ExactVAdd(a, VNeg(b))

RECURSIVE ExactVSum(_, _)
ExactVSum(S, arr) ==
    IF S = {} THEN VZero
    ELSE LET s == CHOOSE a \in S : TRUE
         IN  ExactVAdd(arr[s], ExactVSum(S \ {s}, arr))

\* crnr_force_tot[s] is the computed difference of the force sums at s and
\* at its predecessor
DifferenceStored(s) ==
    sides_and_corners.crnr_force_tot[s] = VSub(ForceSumAt(s), ForceSumAt(mapSideToSidePrev(s)))

\* the subtraction at s was exact
DifferenceExact(s) ==
    sides_and_corners.crnr_force_tot[s]
        = ExactVSub(ForceSumAt(s), ForceSumAt(mapSideToSidePrev(s)))

\* C10 as claimed: after sumCrnrForce every crnr_force_tot[s] is the force
\* sum at s minus the force sum at the predecessor side, and the corner
\* forces of every zone add up to the zero vector, whatever the force
\* fields contain
C10_AsClaimed ==
    (par # <<>> /\ par.mode = "force") =>
        /\ \A s \in Sides : SideSummed(s) => DifferenceStored(s)
        /\ \A z \in Zones :
               ZoneSummed(z) => ExactVSum(SidesOf(z), sides_and_corners.crnr_force_tot) = VZero

\* C10 (amended): after sumCrnrForce every crnr_force_tot[s] is the
\* difference, as computed in floating point, of the force sum at s and
\* the force sum at the predecessor side; the corner forces of a zone add
\* up to the zero vector when none of the zone's subtractions was rounded
C10_Telescope ==
    (par # <<>> /\ par.mode = "force") =>
        /\ \A s \in Sides : SideSummed(s) => DifferenceStored(s)
        /\ \A z \in Zones :
               (ZoneSummed(z) /\ \A s \in SidesOf(z) : DifferenceExact(s)) =>
                   ExactVSum(SidesOf(z), sides_and_corners.crnr_force_tot) = VZero

\* all sides are summed; the hot zone holds three different force sums,
\* nonzero corner forces and no rounded subtraction
C10_Witness ==
    /\ par # <<>> /\ par.mode = "force"
    /\ par.i = num_side_chunks
    /\ Cardinality({ForceSumAt(s) : s \in SidesOf(HotZone)}) >= 3
    /\ \A s \in SidesOf(HotZone) : DifferenceExact(s)
    /\ \E s \in SidesOf(HotZone) : sides_and_corners.crnr_force_tot[s] # VZero

(***************************************************************************)
(* SpecVolume: calcDtVolume called for any range of zones.  dtrec and      *)
(* msgdtrec come in as calcDtHydro hands them over (what calcDtCourant     *)
(* left of the chunk's 1.e99 and unwritten buffer) or as another caller    *)
(* of the static function may set them.                                    *)
(***************************************************************************)
NoVolumeCall ==
    [mode |-> "volume", zfirst |-> -1, zlast |-> -1, dtrec0 |-> Huge, msgdtrec0 |-> Uninit,
     dtrec |-> Huge, msgdtrec |-> Uninit]

InitVolume ==
    /\ InitDtInputs
    /\ zone_chunks_CRS = Arr(<<0, 2, 3>>)
    /\ IdleSeq /\ IdleOrder /\ IdleRace /\ IdleCycle
    /\ copy = <<>> /\ en = <<>>
    /\ par = NoVolumeCall

\* <<dtrec, msgdtrec>> on entry
VolumeEntries(zfirst, zlast) ==
    {calcDtCourant(Huge, Uninit, zfirst, zlast, mesh.zone_dl, zones.zone_dvel,
                   zones.zone_sound_speed, cfl)}
        \cup {<<d, Message("none", -1)>> : d \in InitialDts}

CallCalcDtVolume(zfirst, zlast) ==
    /\ par.mode = "volume"
    /\ \E entry \in VolumeEntries(zfirst, zlast) :
         \E r \in {calcDtVolume(dt, entry[1], entry[2], zfirst, zlast, mesh.zone_vol,
                                mesh.zone_vol0, cflv)} :
            par' = [mode |-> "volume", zfirst |-> zfirst, zlast |-> zlast,
                    dtrec0 |-> entry[1], msgdtrec0 |-> entry[2],
                    dtrec |-> r[1], msgdtrec |-> r[2]]
    /\ UNCHANGED <<fieldVars, dtInputs, recommend, rec0, dtSeqVars, dtOrderVars, dtRaceVars,
                   cycleVars, copy, en>>

NextVolume ==
    \E zfirst \in 0 .. num_zones, zlast \in 0 .. num_zones :
        zfirst <= zlast /\ CallCalcDtVolume(zfirst, zlast)

SpecVolume == InitVolume /\ [][NextVolume]_vars

VolumeCalled == par # <<>> /\ par.mode = "volume" /\ par.zfirst >= 0

\* the zones of the latest call's range and their largest volume-change ratio
VolumeZones == par.zfirst .. par.zlast - 1
VolumeTop == SetMax({ZoneDvov(z) : z \in VolumeZones} \cup {fuzz})
VolumeDtNew == FDiv(FMul(dt, cflv), VolumeTop)

\* the call lowered dtrec and wrote the message
VolumeLowered ==
    /\ FLess(VolumeDtNew, par.dtrec0)
    /\ par.dtrec = VolumeDtNew
    /\ par.msgdtrec.limit = "dV/V"

VolumeKept == par.dtrec = par.dtrec0 /\ par.msgdtrec = par.msgdtrec0

\* C11 as claimed: dtnew = dtlast * cflv / max(largest ratio, fuzz), and
\* whenever calcDtVolume lowers dtrec and writes the message, the zone in
\* the message is a zone of the chunk that attains the largest ratio, also
\* when no zone's volume changed and when the chunk is empty
C11_AsClaimed ==
    VolumeCalled =>
        /\ VolumeLowered \/ VolumeKept
        /\ VolumeLowered =>
               /\ par.msgdtrec.z \in VolumeZones
               /\ ZoneDvov(par.msgdtrec.z) = SetMax({ZoneDvov(z) : z \in VolumeZones})

\* C11 (amended): calcDtVolume lowers dtrec to
\* dtnew = dtlast * cflv / max(largest ratio of the chunk, fuzz) and writes
\* the "dV/V limit" message if and only if dtnew is strictly below dtrec;
\* otherwise dtrec and the message stay as they were.  The zone in the
\* message is the lowest-numbered zone of the chunk that attains the largest
\* ratio when that ratio exceeds fuzz; when no zone's ratio exceeds fuzz
\* (no volume changed, or the chunk is empty) the zone in the message is -1.
C11_VolumeLimit ==
    VolumeCalled =>
        IF FLess(VolumeDtNew, par.dtrec0)
        THEN /\ VolumeLowered
             /\ IF \E z \in VolumeZones : FLess(fuzz, ZoneDvov(z))
                THEN /\ par.msgdtrec.z \in VolumeZones
                     /\ ZoneDvov(par.msgdtrec.z) = VolumeTop
                     /\ \A z \in VolumeZones :
                            ZoneDvov(z) = VolumeTop => par.msgdtrec.z <= z
                ELSE par.msgdtrec.z = -1
        ELSE VolumeKept

\* a call over two zones or more lowered the dtrec that calcDtCourant had
\* set, with the largest ratio attained by a zone that is not the first
C11_Witness ==
    /\ VolumeCalled
    /\ par.zlast - par.zfirst >= 2
    /\ par.msgdtrec0.limit = "Courant"
    /\ VolumeLowered
    /\ par.msgdtrec.z > par.zfirst
    /\ ZoneDvov(par.msgdtrec.z) = VolumeTop
====
